---- MODULE Spec2Model ----
(***************************************************************************)
(* Model of the blaze tree store of session-recorder: Node (node.ts),      *)
(* TreeStorage (tree-storage.ts), TreeDataSnapshot, TreeDatabaseRef and    *)
(* TreeDatabase.applyModification.                                         *)
(*                                                                         *)
(* The live tree is a flat map from node paths (sequences of keys) to node *)
(* records.  A path string of the code ("a/b") is the sequence of segments *)
(* its split('/') yields; the empty string is <<"">>.                      *)
(***************************************************************************)
EXTENDS Integers, Sequences, FiniteSets, TLC

\* ---------------------------------------------------------------- bounds
MaxSubs == 2        \* subscriptions alive at the same time
MaxVals == 2        \* most entries of a values map
MaxMarks == 2       \* upward marks of one node that are told apart

Keys == {"a", "b"}
\* PrimitiveValue tokens: the JS literals 0, 1, 2; Null is JS null
Null == "null"
Values == {"0", "1", "2"}

\* JS truthiness of a PrimitiveValue | null, as tested by `if (newValue)`
Truthy(v) == v \notin {Null, "0", "false", "''"}

\* ------------------------------------------------------- sequence helpers
Last(s) == s[Len(s)]
Front(s) == SubSeq(s, 1, Len(s) - 1)
Range(s) == {s[i] : i \in 1..Len(s)}
SeqsUpTo(S, n) == UNION {[1..k -> S] : k \in 0..n}

\* f itself, as the explicit table of its values: TLC keeps [x \in S |-> e] as
\* an expression and computes its values on demand, which Strict does at once
Strict(f) == f @@ <<>>

\* the node paths of the model: the root, its child a, and a's children a and b
NodePaths == {<<>>, <<"a">>, <<"a", "a">>, <<"a", "b">>}
NoNode == <<"#">>                 \* `null` / `undefined` where a Node is expected

\* ChangeType and TreeDataEventType
NoType == "none"
Added == "Added"
Changed == "Changed"
Removed == "Removed"
ChildAdded == "ChildAdded"
ChildChangedEv == "ChildChanged"
ChildRemoved == "ChildRemoved"
ValueChanged == "ValueChanged"

\* ------------------------------------------------------------ Node records
\* sent counts the calls of parent.markChildAsChanged the node made from its
\* own markChildAsChanged since its ledger was last cleared (up to MaxMarks)
Fresh == [live |-> TRUE, value |-> Null, children |-> <<>>, changed |-> <<>>, sent |-> 0]
Dead == [live |-> FALSE, value |-> Null, children |-> <<>>, changed |-> <<>>, sent |-> 0]

EmptyTree == Strict([p \in NodePaths |-> IF p = <<>> THEN Fresh ELSE Dead])

\* Map<string, ChangeType> in insertion order
LedgerGet(led, key) ==
    IF \E i \in 1..Len(led) : led[i].key = key
    THEN (CHOOSE e \in Range(led) : e.key = key).type
    ELSE NoType

\* variant of Map.set that adds an entry even when the key has one
LedgerAppend(led, key, type) == Append(led, [key |-> key, type |-> type])

LedgerSet(led, key, type) ==
    IF \E i \in 1..Len(led) : led[i].key = key
    THEN Strict([i \in 1..Len(led) |-> IF led[i].key = key THEN [key |-> key, type |-> type] ELSE led[i]])
    ELSE Append(led, [key |-> key, type |-> type])

LedgerDelete(led, key) == SelectSeq(led, LAMBDA e : e.key # key)

IsPrefix(p, q) == Len(p) <= Len(q) /\ SubSeq(q, 1, Len(p)) = p

\* The state threaded through one synchronous call chain is a record s:
\*   s.t    the tree,
\*   s.log  what the chain did, in order: publishers completed
\*          ("complete"), NodeEvents published ("event"), Modifications
\*          published on the outgoing stream ("publish"), Node objects
\*          constructed ("create"),
\*   s.err  an Error was thrown (the rest of the call chain is skipped),
\*   s.pend, s.res  see StartStorage

\* Node.getDirectChild
GetDirectChild(t, p, key) ==
    IF key \in Range(t[p].children) THEN Append(p, key) ELSE NoNode

\* Node.getChild
RECURSIVE GetChild(_, _, _)
GetChild(t, p, path) ==
    IF path = <<>> \/ path[1] = "" THEN p
    ELSE IF GetDirectChild(t, p, path[1]) # NoNode
    THEN GetChild(t, Append(p, path[1]), Tail(path))
    ELSE NoNode

\* Node.markChildAsChanged
RECURSIVE MarkChildAsChanged(_, _, _, _)

\* its last branch, after changedNodes.set(key, type): the call on the parent
MarkInParentNever(s1, p) == s1

MarkInParent(s1, p) ==
    IF p # <<>> /\ Len(s1.t[p].changed) = 1
    THEN MarkChildAsChanged(
            [s1 EXCEPT !.t[p].sent = IF @ < MaxMarks THEN @ + 1 ELSE @],
            Front(p), Last(p), Changed)
    ELSE s1

\* variant of the branches in which the last mark of a key wins
MarkWithCurrentOverwrite(s, p, key, type, currentType) ==
    IF currentType # NoType
    THEN [s EXCEPT !.t[p].changed = LedgerSet(@, key, type)]
    ELSE MarkInParent([s EXCEPT !.t[p].changed = LedgerSet(@, key, type)], p)

\* its branches on currentType = changedNodes.get(key)
MarkWithCurrent(s, p, key, type, currentType) ==
    IF currentType # NoType
    THEN IF currentType = Changed /\ type = Changed THEN s
         ELSE IF currentType = Removed /\ type = Added
              THEN [s EXCEPT !.t[p].changed = LedgerSet(@, key, Changed)]
         ELSE IF currentType = Added /\ type = Removed
              THEN [s EXCEPT !.t[p].changed = LedgerDelete(@, key)]
         ELSE IF currentType = Added /\ type = Changed
              THEN [s EXCEPT !.t[p].changed = LedgerSet(@, key, Added)]
         ELSE [s EXCEPT !.t[p].changed = LedgerSet(@, key, type)]
    ELSE MarkInParent([s EXCEPT !.t[p].changed = LedgerSet(@, key, type)], p)

MarkChildAsChanged(s, p, key, type) ==
    IF s.err THEN s
    ELSE IF key \notin Range(s.t[p].children) THEN [s EXCEPT !.err = TRUE]
    ELSE MarkWithCurrent(s, p, key, type, LedgerGet(s.t[p].changed, key))

\* Node.disconnect: the publishers completed, children first
RECURSIVE DisconnectOrder(_, _)
RECURSIVE DisconnectKids(_, _, _)
DisconnectKids(t, p, i) ==
    IF i > Len(t[p].children) THEN <<>>
    ELSE DisconnectOrder(t, Append(p, t[p].children[i])) \o DisconnectKids(t, p, i + 1)
\* variant of disconnect that completes the publisher of the node only
DisconnectOrderShallow(t, p) == <<p>>

DisconnectOrder(t, p) == Append(DisconnectKids(t, p, 1), p)

\* Node.clone
RECURSIVE Clone(_, _)
Clone(t, p) ==
    [value |-> t[p].value,
     keys |-> t[p].children,
     kids |-> Strict([k \in Range(t[p].children) |-> Clone(t, Append(p, k))])]

\* each completed node is logged with the content its object keeps, and with
\* the content of the whole tree at the time its publisher completes
CompleteEntries(t, order) ==
    Strict([i \in 1..Len(order) |->
              [what |-> "complete", node |-> order[i], copy |-> Clone(t, order[i]),
               root |-> Clone(t, <<>>)]])

Disconnect(s, p) ==
    [s EXCEPT !.log = @ \o CompleteEntries(s.t, DisconnectOrder(s.t, p))]

\* Node.removeAllChildren
RECURSIVE RemoveAllLoop(_, _, _)
RemoveAllLoop(s, p, i) ==
    IF s.err \/ i > Len(s.t[p].children) THEN s
    ELSE RemoveAllLoop(Disconnect(MarkChildAsChanged(s, p, s.t[p].children[i], Removed),
                                  Append(p, s.t[p].children[i])),
                       p, i + 1)

\* variant of removeAllChildren that forgets this.children.clear()
ChildrenKept(s1, p) == s1

\* this.children.clear()
ChildrenClear(s1, p) ==
    IF s1.err THEN s1
    ELSE [s1 EXCEPT !.t = Strict([q \in NodePaths |->
                              IF q = p THEN [s1.t[p] EXCEPT !.children = <<>>]
                              ELSE IF IsPrefix(p, q) THEN Dead ELSE s1.t[q]])]

RemoveAllChildren(s, p) == ChildrenClear(RemoveAllLoop(s, p, 1), p)

\* this._value = newValue
AssignValue(s1, p, newValue) ==
    IF s1.err THEN s1 ELSE [s1 EXCEPT !.t[p].value = newValue]

\* Node.setValueInternal
SetValueInternal(s, p, newValue) ==
    AssignValue(IF Truthy(newValue) THEN RemoveAllChildren(s, p) ELSE s, p, newValue)

\* if (this.parent) this.parent.markChildAsChanged(this.key, ChangeType.Changed)
MarkSelfChanged(s1, p) ==
    IF p # <<>> THEN MarkChildAsChanged(s1, Front(p), Last(p), Changed) ELSE s1

\* variant of setValue without the comparison with the current value
NodeSetValueAlways(s, p, value) ==
    IF s.err THEN s ELSE MarkSelfChanged(SetValueInternal(s, p, value), p)

\* Node.setValue
NodeSetValue(s, p, value) ==
    IF s.err \/ value = s.t[p].value THEN s
    ELSE MarkSelfChanged(SetValueInternal(s, p, value), p)

\* Node.resolveDirectChild
ResolveDirectChild(s, p, key) ==
    IF s.err \/ GetDirectChild(s.t, p, key) # NoNode THEN s
    ELSE MarkChildAsChanged(
            [s EXCEPT !.t[p].children = Append(@, key), !.t[Append(p, key)] = Fresh,
                      !.log = Append(@, [what |-> "create", node |-> Append(p, key)])],
            p, key, Added)

\* Node.resolveChild: the tree after the walk, and the node it returns
RECURSIVE ResolveChild(_, _, _)
ResolveChild(s, p, path) ==
    IF s.err \/ path = <<>> \/ path[1] = "" THEN [s |-> s, node |-> p]
    ELSE ResolveChild(
            ResolveDirectChild(IF Truthy(s.t[p].value) THEN SetValueInternal(s, p, Null) ELSE s,
                               p, path[1]),
            Append(p, path[1]), Tail(path))

\* this.children.delete(key)
ChildrenDelete(s1, p, key) ==
    IF s1.err THEN s1
    ELSE [s1 EXCEPT !.t = Strict([q \in NodePaths |->
             IF q = p THEN [s1.t[p] EXCEPT !.children = SelectSeq(@, LAMBDA k : k # key)]
             ELSE IF IsPrefix(Append(p, key), q) THEN Dead ELSE s1.t[q]])]

\* variant of removeDirectChild that deletes the child before it marks it
RemoveDirectChildDeleteFirst(s, p, key) ==
    IF s.err \/ GetDirectChild(s.t, p, key) = NoNode THEN s
    ELSE MarkChildAsChanged(ChildrenDelete(Disconnect(s, Append(p, key)), p, key), p, key, Removed)

\* variant of removeDirectChild that forgets node.disconnect()
RemoveDirectChildConnected(s, p, key) ==
    IF s.err \/ GetDirectChild(s.t, p, key) = NoNode THEN s
    ELSE ChildrenDelete(MarkChildAsChanged(s, p, key, Removed), p, key)

\* Node.removeDirectChild
RemoveDirectChild(s, p, key) ==
    IF s.err \/ GetDirectChild(s.t, p, key) = NoNode THEN s
    ELSE ChildrenDelete(Disconnect(MarkChildAsChanged(s, p, key, Removed), Append(p, key)), p, key)

\* --------------------------------------------------- copies and projection
\* a Node object outside the live tree (a clone, a removed node, a placeholder)
EmptyCopy == [value |-> Null, keys |-> <<>>, kids |-> <<>>]

\* Node.toJSON on a node of the live tree
RECURSIVE ToJSON(_, _)
ToJSON(t, p) ==
    IF t[p].value # Null THEN [prim |-> t[p].value]
    ELSE [obj |-> Strict([k \in Range(t[p].children) |-> ToJSON(t, Append(p, k))])]

\* Node.toJSON on a copy
RECURSIVE CopyToJSON(_)
CopyToJSON(c) ==
    IF c.value # Null THEN [prim |-> c.value]
    ELSE [obj |-> Strict([k \in Range(c.keys) |-> CopyToJSON(c.kids[k])])]

\* Node.isEqual: this = a copy, other = the live node at p (NoNode for null)
RECURSIVE IsEqual(_, _, _)
IsEqual(c, t, p) ==
    IF p = NoNode \/ c.value # t[p].value THEN FALSE
    ELSE IF Len(c.keys) # Len(t[p].children) THEN FALSE
    ELSE \A k \in Range(c.keys) :
            LET otherChild == GetDirectChild(t, p, k) IN
            otherChild # NoNode /\ IsEqual(c.kids[k], t, otherChild)

\* ------------------------------------------------------- ledger walks
NodeEvent(at, type, node, key, copy) ==
    [what |-> "event", at |-> at, type |-> type, node |-> node, key |-> key, copy |-> copy]

EventTypeOf(type) ==
    IF type = Added THEN ChildAdded
    ELSE IF type = Changed THEN ChildChangedEv ELSE ChildRemoved

\* Node.fireSelfNotifications
FireSelfNotifications(s, p) ==
    [s EXCEPT !.log = Append(@, NodeEvent(p, ValueChanged, p,
                                       IF p = <<>> THEN "" ELSE Last(p), Clone(s.t, p)))]

\* Node.fireChildrenNotifications
RECURSIVE FireChildrenNotifications(_, _)
RECURSIVE FireLoop(_, _, _, _)

\* node.fireSelfNotifications(), reached when nothing above it threw
FireSelfUnlessThrown(s2, node) ==
    IF s2.err THEN s2 ELSE FireSelfNotifications(s2, node)

\* variant of the walk of one entry that publishes the child's ValueChanged
\* before the child's own ledger
FireEntrySelfFirst(s, p, key, type, node) ==
    IF type # Removed /\ node = NoNode THEN [s EXCEPT !.err = TRUE]
    ELSE IF type = Removed
    THEN [s EXCEPT !.log = Append(@, NodeEvent(p, ChildRemoved, NoNode, key, EmptyCopy))]
    ELSE FireChildrenNotifications(
            FireSelfUnlessThrown(
                [s EXCEPT !.log = Append(@, NodeEvent(p, EventTypeOf(type), node, key,
                                                      Clone(s.t, node)))],
                node),
            node)

\* one entry (key, type) of changedNodes, node being this.getDirectChild(key)
FireEntry(s, p, key, type, node) ==
    IF type # Removed /\ node = NoNode THEN [s EXCEPT !.err = TRUE]
    ELSE IF type = Removed
    THEN [s EXCEPT !.log = Append(@, NodeEvent(p, ChildRemoved, NoNode, key, EmptyCopy))]
    ELSE FireSelfUnlessThrown(
            FireChildrenNotifications(
                [s EXCEPT !.log = Append(@, NodeEvent(p, EventTypeOf(type), node, key,
                                                      Clone(s.t, node)))],
                node),
            node)

FireLoop(s, p, led, i) ==
    IF s.err \/ i > Len(led) THEN s
    ELSE FireLoop(FireEntry(s, p, led[i].key, led[i].type, GetDirectChild(s.t, p, led[i].key)),
                  p, led, i + 1)

\* if (!this.parent && this.changedNodes.size > 0) this.fireSelfNotifications()
FireRootSelf(s1, p, size) ==
    IF p = <<>> /\ size > 0 /\ ~s1.err THEN FireSelfNotifications(s1, p) ELSE s1

\* variant of the flush that forgets this.changedNodes.clear()
ChangedKept(s2, p) == s2

\* this.changedNodes.clear()
ChangedClear(s2, p) ==
    IF s2.err THEN s2 ELSE [s2 EXCEPT !.t[p].changed = <<>>, !.t[p].sent = 0]

FireChildrenNotifications(s, p) ==
    ChangedClear(FireRootSelf(FireLoop(s, p, s.t[p].changed, 1), p, Len(s.t[p].changed)), p)

\* Node.resetChangedNodes
RECURSIVE ResetChangedNodes(_, _)
RECURSIVE ResetLoop(_, _, _, _)
ResetLoopShallow(s, p, led, i) == s

ResetLoop(s, p, led, i) ==
    IF s.err \/ i > Len(led) THEN s
    ELSE IF led[i].type # Removed
    THEN IF GetDirectChild(s.t, p, led[i].key) = NoNode THEN [s EXCEPT !.err = TRUE]
         ELSE ResetLoop(ResetChangedNodes(s, Append(p, led[i].key)), p, led, i + 1)
    ELSE ResetLoop(s, p, led, i + 1)

ResetChangedNodes(s, p) == ChangedClear(ResetLoop(s, p, s.t[p].changed, 1), p)

\* ------------------------------------------------------------ TreeStorage
\* path strings: the root path "" is <<"">>
RootPath == <<"">>

\* `${path}/${key}` unless path is the empty string
JoinPath(path, key) == IF path = RootPath THEN key ELSE path \o key

\* the node path a path string walks to: its segments up to the first ''
RECURSIVE Walked(_)
Walked(path) ==
    IF path = <<>> \/ path[1] = "" THEN <<>> ELSE <<path[1]>> \o Walked(Tail(path))

\* TreeStorage.getNode
GetNode(t, path) == IF path = RootPath THEN <<>> ELSE GetChild(t, <<>>, path)

\* the state threaded through a TreeStorage call: as Start, and
\*   pend  pendingNodeCallbacks (path string -> subscriptions, in order),
\*   res   the callbacks called and the node each was called with, in order
StartStorage(t, pend) ==
    [t |-> t, log |-> <<>>, err |-> FALSE, pend |-> pend, res |-> <<>>]

MapRemove(f, k) == Strict([x \in DOMAIN f \ {k} |-> f[x]])
MapPut(f, k, v) == Strict([x \in DOMAIN f \cup {k} |-> IF x = k THEN v ELSE f[x]])

\* variant of onNodeModified that resolves no outstanding callback
OnNodeModifiedIdle(s, path) == s

\* TreeStorage.onNodeModified
RECURSIVE OnNodeModifiedLoop(_, _, _)

\* callbacks.forEach(callback => callback(node)) and pendingNodeCallbacks.delete(subpath)
CallCallbacksKeeping(s, subpath, node) ==
    IF subpath \in DOMAIN s.pend
    THEN [s EXCEPT !.res = @ \o Strict([i \in 1..Len(s.pend[subpath]) |->
                                          [sub |-> s.pend[subpath][i], node |-> node]])]
    ELSE s

CallCallbacks(s, subpath, node) ==
    IF subpath \in DOMAIN s.pend
    THEN [s EXCEPT !.res = @ \o Strict([i \in 1..Len(s.pend[subpath]) |->
                                          [sub |-> s.pend[subpath][i], node |-> node]]),
                   !.pend = MapRemove(@, subpath)]
    ELSE s

OnNodeModifiedLoop(s, path, idx) ==
    IF idx > Len(path) THEN s
    ELSE OnNodeModifiedLoop(
            CallCallbacks(s, SubSeq(path, 1, idx), GetNode(s.t, SubSeq(path, 1, idx))),
            path, idx + 1)

OnNodeModified(s, path) == IF s.err THEN s ELSE OnNodeModifiedLoop(s, path, 1)

\* TreeStorage.resolveNode
ResolveNode(s, path) == ResolveChild(s, <<>>, path)

\* node.setValue(value) on the node a resolve returned
SetValueAt(r, value) == NodeSetValue(r.s, r.node, value)

\* TreeStorage.setValue
StorageSetValue(s, path, value) ==
    OnNodeModified(SetValueAt(ResolveNode(s, path), value), path)

\* the two forEach loops over Object.keys(values) of setValues / updateValues;
\* values is the sequence of entries in key order
RECURSIVE WriteValuesLoop(_, _, _, _)
WriteValuesLoop(s, node, values, i) ==
    IF s.err \/ i > Len(values) THEN s
    ELSE WriteValuesLoop(SetValueAt(ResolveChild(s, node, values[i].key), values[i].value),
                         node, values, i + 1)

RECURSIVE NotifyValuesLoop(_, _, _, _)
NotifyValuesLoop(s, path, values, i) ==
    IF s.err \/ i > Len(values) THEN s
    ELSE NotifyValuesLoop(OnNodeModified(s, JoinPath(path, values[i].key)), path, values, i + 1)

\* TreeStorage.setValues, from the node its resolveNode returned
SetValuesAt(r, path, values) ==
    OnNodeModified(
        NotifyValuesLoop(
            WriteValuesLoop(RemoveAllChildren(r.s, r.node), r.node, values, 1),
            path, values, 1),
        path)

StorageSetValues(s, path, values) == SetValuesAt(ResolveNode(s, path), path, values)

\* variant of updateValues that clears the children first, as setValues does
UpdateValuesReplacing(r, path, values) == SetValuesAt(r, path, values)

\* TreeStorage.updateValues, from the node its resolveNode returned
UpdateValuesAt(r, path, values) ==
    OnNodeModified(
        NotifyValuesLoop(WriteValuesLoop(r.s, r.node, values, 1), path, values, 1),
        path)

StorageUpdateValues(s, path, values) == UpdateValuesAt(ResolveNode(s, path), path, values)

\* node.removeDirectChild(key) on the parent node removeValue found
RemoveKeyAt(s, node, key) ==
    IF node # NoNode /\ key # "" THEN RemoveDirectChild(s, node, key) ELSE s

\* variant of removeValue that resolves the parent instead of looking it up
StorageRemoveValueResolving(s, path) ==
    RemoveKeyAt(ResolveNode(s, Front(path)).s, ResolveNode(s, Front(path)).node, Last(path))

\* TreeStorage.removeValue
StorageRemoveValue(s, path) ==
    RemoveKeyAt(s, GetChild(s.t, <<>>, Front(path)), Last(path))

\* variant of resetRecordedChanges that leaves the ledgers as they are
ResetNothing(s) == s

\* TreeStorage.resetRecordedChanges
ResetRecordedChanges(s) == ResetChangedNodes(s, <<>>)

\* TreeStorage.triggerRecordChangeNotifications
TriggerRecordChangeNotifications(s) == FireChildrenNotifications(s, <<>>)

\* ------------------------------------------------------- Modification
SetValueMod(path, value) == [type |-> "setValue", path |-> path, value |-> value]
SetValuesMod(path, values) == [type |-> "setValues", path |-> path, values |-> values]
UpdateMod(path, values) == [type |-> "updateChildValues", path |-> path, values |-> values]
RemoveMod(path) == [type |-> "remove", path |-> path]
PathString(p) == IF p = <<>> THEN RootPath ELSE p

NoMod == [type |-> "none", path |-> RootPath]

Local == "Local"
Remote == "Remote"

\* ----------------------------------------------------------- the inputs
\* path strings handed to refs, modifications and subscriptions
PathStrings == {PathString(p) : p \in NodePaths}

\* keys of a values map: relative path strings
ValueKeys == {<<k>> : k \in Keys}

Entries == [key : ValueKeys, value : Values]

\* values maps: objects with distinct keys, as the sequence Object.keys walks
ValueMaps ==
    {vs \in SeqsUpTo(Entries, MaxVals) : \A i, j \in 1..Len(vs) : i # j => vs[i].key # vs[j].key}

Mods ==
    {SetValueMod(p, v) : p \in PathStrings, v \in Values}
    \cup {SetValuesMod(p, vs) : p \in PathStrings, vs \in ValueMaps}
    \cup {UpdateMod(p, vs) : p \in PathStrings, vs \in ValueMaps}
    \cup {RemoveMod(p) : p \in PathStrings}

ModKeys(m) ==
    IF m.type \in {"setValues", "updateChildValues"}
    THEN {m.values[i].key : i \in 1..Len(m.values)} ELSE {}

\* the write creates no node outside the model's tree
DepthOK(m) ==
    /\ Walked(m.path) \in NodePaths
    /\ \A k \in ModKeys(m) : Walked(m.path) \o Walked(k) \in NodePaths

\* --------------------------------------------------------- subscriptions
\* one subscription of TreeDatabaseRef.changes (all four event types):
\*   st    none | waiting (its callback is in pendingNodeCallbacks)
\*         | resolved (promise resolved with the live node `node`, then-callbacks queued)
\*         | stale (resolved with a node that has been removed since; `copy` is its content)
\*         | nullref (promise resolved with null)
\*         | attached (subscribed to node.changes) | done (completed) | error
\*   cb    the callback getNodePromise returned is not null
NoSub == [st |-> "none", path |-> RootPath, node |-> NoNode, cb |-> FALSE, copy |-> EmptyCopy]
SubIds == 1..MaxSubs

\* the map of TreeDatabaseRef.changes: NodeEvent -> TreeDataEvent for the ref at refPath
ToDataEvent(refPath, e) ==
    IF e.type = ChildRemoved
    THEN [type |-> e.type, path |-> refPath \o <<e.key>>, key |-> e.key, copy |-> e.copy]
    ELSE [type |-> e.type, path |-> PathString(e.node), key |-> e.key, copy |-> e.copy]

Completions(log) == SelectSeq(log, LAMBDA e : e.what = "complete")
Events(log) == SelectSeq(log, LAMBDA e : e.what = "event")
Published(log) == SelectSeq(log, LAMBDA e : e.what = "publish")

CreatedNodes(log) == {e.node : e \in Range(SelectSeq(log, LAMBDA e : e.what = "create"))}
CompletedNodes(log) == {e.node : e \in Range(Completions(log))}
FirstCopy(log, node) ==
    LET cs == SelectSeq(log, LAMBDA e : e.what = "complete" /\ e.node = node) IN cs[1].copy

\* what one synchronous call chain does to the subscriptions: Subject.complete
\* of Node.disconnect, and the resolve callbacks run by onNodeModified
SettleSubs(ss, s) ==
    Strict([i \in SubIds |->
        LET cur == ss[i] IN
        IF cur.st = "attached" /\ cur.node \in CompletedNodes(s.log)
        THEN [cur EXCEPT !.st = "done"]
        ELSE IF cur.st = "resolved" /\ cur.node \in CompletedNodes(s.log)
        THEN [cur EXCEPT !.st = "stale", !.copy = FirstCopy(s.log, cur.node)]
        ELSE IF cur.st = "waiting" /\ \E j \in 1..Len(s.res) : s.res[j].sub = i
        THEN LET r == CHOOSE r \in Range(s.res) : r.sub = i IN
             IF r.node = NoNode THEN [cur EXCEPT !.st = "nullref"]
             ELSE [cur EXCEPT !.st = "resolved", !.node = r.node]
        ELSE cur])

\* variant of the delivery that hands the events to a scheduler: nothing is
\* received inside the call
DeliveredLater(ss, s) == Strict([i \in SubIds |-> <<>>])

\* Subject.next of the node publishers: the events each subscription receives
DeliveredOf(ss, s) ==
    Strict([i \in SubIds |->
        IF ss[i].st = "attached" /\ ss[i].node \notin CompletedNodes(s.log)
        THEN LET mine == SelectSeq(Events(s.log), LAMBDA e : e.at = ss[i].node) IN
             Strict([j \in 1..Len(mine) |-> ToDataEvent(ss[i].path, mine[j])])
        ELSE <<>>])

NoneDelivered == Strict([i \in SubIds |-> <<>>])

\* variant of getStateObservable that pushes the ValueChanged event first
StateEventsValueFirst(t, node) ==
    <<NodeEvent(node, ValueChanged, node, IF node = <<>> THEN "" ELSE Last(node), Clone(t, node))>>
    \o [j \in 1..Len(t[node].children) |->
          LET child == Append(node, t[node].children[j]) IN
          NodeEvent(node, ChildAdded, child, t[node].children[j], Clone(t, child))]

\* TreeStorage.getStateObservable, for a live node and for a removed one
StateEvents(t, node) ==
    [j \in 1..Len(t[node].children) |->
        LET child == Append(node, t[node].children[j]) IN
        NodeEvent(node, ChildAdded, child, t[node].children[j], Clone(t, child))]
    \o <<NodeEvent(node, ValueChanged, node, IF node = <<>> THEN "" ELSE Last(node), Clone(t, node))>>

StateEventsOfCopy(node, c) ==
    [j \in 1..Len(c.keys) |->
        NodeEvent(node, ChildAdded, Append(node, c.keys[j]), c.keys[j], c.kids[c.keys[j]])]
    \o <<NodeEvent(node, ValueChanged, node, IF node = <<>> THEN "" ELSE Last(node), c)>>

\* variant of cleanupNodePromise that drops every callback mapped at path
CleanupNodePromiseAll(pend, path, i, cb) ==
    IF ~cb \/ path \notin DOMAIN pend THEN pend ELSE MapRemove(pend, path)

\* TreeStorage.cleanupNodePromise
CleanupNodePromise(pend, path, i, cb) ==
    IF ~cb \/ path \notin DOMAIN pend THEN pend
    ELSE LET callbacks == SelectSeq(pend[path], LAMBDA c : c # i) IN
         IF Len(callbacks) > 0 THEN MapPut(pend, path, callbacks) ELSE MapRemove(pend, path)

\* ------------------------------------------------------- TreeDataSnapshot
\* the Node a snapshot holds: a Node object of its own (a copy), or the
\* Node object of the live tree at a path
OwnNode(c) == [own |-> TRUE, copy |-> c]
LiveNode(p) == [own |-> FALSE, at |-> p]

\* new TreeDataSnapshot(database, node, path, key)
NewSnapshot(node, path, key) == [taken |-> TRUE, node |-> node, path |-> path, key |-> key]
NoSnapshot == [taken |-> FALSE]

\* variant of take that keeps the node it is given instead of node.clone()
TakeShared(t, p) == NewSnapshot(LiveNode(p), PathString(p), IF p = <<>> THEN "" ELSE Last(p))

\* TreeDataSnapshot.take
Take(t, p) == NewSnapshot(OwnNode(Clone(t, p)), PathString(p), IF p = <<>> THEN "" ELSE Last(p))

\* TreeDataSnapshot.value, read while the live tree is t
SnapshotValue(sn, t) == IF sn.node.own THEN sn.node.copy.value ELSE t[sn.node.at].value

\* TreeDataSnapshot.toJSON
SnapshotToJSON(sn, t) == IF sn.node.own THEN CopyToJSON(sn.node.copy) ELSE ToJSON(t, sn.node.at)

\* TreeDataSnapshot.children: the keys, in order, and the projection of each child
SnapshotChildKeys(sn, t) == IF sn.node.own THEN sn.node.copy.keys ELSE t[sn.node.at].children

SnapshotChildJSON(sn, t, k) ==
    IF sn.node.own THEN CopyToJSON(sn.node.copy.kids[k]) ELSE ToJSON(t, Append(sn.node.at, k))

\* --------------------------------------------------------------- getValue
\* the Promise of TreeDatabaseRef.getValue: none (no call made) | pending |
\* resolved with `value` | rejected; sub is the subscription it made
NoJSON == [none |-> TRUE]
NoFuture == [st |-> "none", sub |-> 0, path |-> RootPath, value |-> NoJSON]

\* ------------------------------------------------------------- the state
VARIABLES
    readonly,    \* TreeDatabase.readonly
    tree,        \* TreeStorage.root and everything below it
    pend,        \* TreeStorage.pendingNodeCallbacks
    subs,        \* the subscriptions
    mq,          \* subscriptions whose promise then-callbacks are queued (microtasks)
    log,         \* what the last step made observable, in order
    delivered,   \* the TreeDataEvents each subscription received in the last step
    lastOp,      \* the call that made the last step
    snap,        \* a TreeDataSnapshot some consumer holds on to
    taken,       \* what the node of snap looked like when snap was taken
    future,      \* the Promise a call of TreeDatabaseRef.getValue returned
    base         \* the tree when the ledgers were last flushed or reset, and
                 \* the nodes that were disconnected since

vars == <<readonly, tree, pend, subs, mq, log, delivered, lastOp, snap, taken, future, base>>

\* lastOp.mod is the Modification of a ref write that did not throw, and
\* the type and path of any other write
Header(m) == [type |-> m.type, path |-> m.path]

Op(op, mod, src, sub, threw) ==
    [op |-> op, mod |-> mod, src |-> src, sub |-> sub, threw |-> threw]

\* no call is on the stack: the records of the last call have been dropped
IdleOp == Op("idle", Header(NoMod), "-", 0, FALSE)
Idle == lastOp = IdleOp

FlushPoint(t) == [t |-> t, gone |-> {}]

\* base after a call: a new flush point after the calls that end with
\* triggerRecordChangeNotifications or resetRecordedChanges, or one more
\* window of disconnects
BaseAfter(b, s, op) ==
    IF op.op \in {"ref", "apply", "flush", "reset"} /\ ~s.err THEN FlushPoint(s.t)
    ELSE [b EXCEPT !.gone = @ \cup CompletedNodes(s.log)]

Init ==
    /\ readonly \in BOOLEAN
    /\ tree = EmptyTree
    /\ pend = <<>>
    /\ subs = Strict([i \in SubIds |-> NoSub])
    /\ mq = <<>>
    /\ log = <<>>
    /\ delivered = NoneDelivered
    /\ lastOp = IdleOp
    /\ snap = NoSnapshot
    /\ taken = NoSnapshot
    /\ future = NoFuture
    /\ base = FlushPoint(tree)

\* the storage call of a modification
ApplyToStorage(s, m) ==
    IF m.type = "setValue" THEN StorageSetValue(s, m.path, m.value)
    ELSE IF m.type = "setValues" THEN StorageSetValues(s, m.path, m.values)
    ELSE IF m.type = "updateChildValues" THEN StorageUpdateValues(s, m.path, m.values)
    ELSE StorageRemoveValue(s, m.path)

\* database.publisher.next(modification)
Publish(s, m) ==
    IF s.err THEN s
    ELSE [s EXCEPT !.log = Append(@, [what |-> "publish", mod |-> m, content |-> Clone(s.t, <<>>)])]

\* the effects of one finished call chain on the state
Commit(s, op) ==
    /\ tree' = s.t
    /\ pend' = s.pend
    /\ subs' = SettleSubs(subs, s)
    /\ mq' = mq \o Strict([j \in 1..Len(s.res) |-> s.res[j].sub])
    /\ log' = s.log
    /\ delivered' = DeliveredOf(subs, s)
    /\ lastOp' = [op EXCEPT !.threw = s.err]
    /\ base' = BaseAfter(base, s, op)
    /\ UNCHANGED <<readonly, snap, taken, future>>

\* variant of the ref writes that publishes after the flush
RefWriteChainFlushFirst(t, pe, m) ==
    Publish(TriggerRecordChangeNotifications(ApplyToStorage(StartStorage(t, pe), m)), m)

\* TreeDatabaseRef.setValue / setValues / update / remove on a writable database
RefWriteChain(t, pe, m) ==
    TriggerRecordChangeNotifications(Publish(ApplyToStorage(StartStorage(t, pe), m), m))

RefWrite(m) ==
    /\ Idle
    /\ ~readonly
    /\ DepthOK(m)
    /\ \E s \in {RefWriteChain(tree, pend, m)} :
          Commit(s, Op("ref", IF s.err THEN Header(m) ELSE m, "-", 0, FALSE))

\* variant of the ref writes that never looks at database.readonly
RefWriteUnchecked(m) ==
    /\ Idle
    /\ DepthOK(m)
    /\ \E s \in {RefWriteChain(tree, pend, m)} :
          Commit(s, Op("ref", IF s.err THEN Header(m) ELSE m, "-", 0, FALSE))

\* the same four on a read-only database: throw before anything else
RefWriteReadonly(m) ==
    /\ Idle
    /\ readonly
    /\ log' = <<>>
    /\ delivered' = NoneDelivered
    /\ lastOp' = Op("ref", Header(m), "-", 0, TRUE)
    /\ UNCHANGED <<readonly, tree, pend, subs, mq, snap, taken, future, base>>

\* const clone = isLocal ? (node ? node.clone() : null) : null
CloneBefore(t, isLocal, m) ==
    IF m.type = "setValues" /\ isLocal /\ GetNode(t, m.path) # NoNode
    THEN [null |-> FALSE, copy |-> Clone(t, GetNode(t, m.path))]
    ELSE [null |-> TRUE, copy |-> EmptyCopy]

\* variant of suppressNotifications that does not compare with the clone
SuppressWithoutCompare(s1, isLocal, m, clone) ==
    /\ m.type = "setValues"
    /\ isLocal
    /\ ~clone.null
    /\ ~s1.err

\* suppressNotifications, once the storage call has returned s1
SuppressNotifications(s1, isLocal, m, clone) ==
    /\ m.type = "setValues"
    /\ isLocal
    /\ ~clone.null
    /\ ~s1.err
    /\ IsEqual(clone.copy, s1.t, GetNode(s1.t, m.path))

\* the if (!suppressNotifications) that ends applyModification
FlushOrReset(s1, isLocal, m, clone) ==
    IF ~SuppressNotifications(s1, isLocal, m, clone)
    THEN TriggerRecordChangeNotifications(s1)
    ELSE ResetRecordedChanges(s1)

\* variant of applyModification that always flushes
ApplyModificationAlwaysFlush(t, pe, src, m) ==
    TriggerRecordChangeNotifications(ApplyToStorage(StartStorage(t, pe), m))

\* variant of applyModification that compares with the clone whatever the source
ApplyModificationAnySource(t, pe, src, m) ==
    FlushOrReset(ApplyToStorage(StartStorage(t, pe), m), TRUE, m, CloneBefore(t, TRUE, m))

\* variant of applyModification that publishes what it applied
ApplyModificationRelaying(t, pe, src, m) ==
    FlushOrReset(Publish(ApplyToStorage(StartStorage(t, pe), m), m), src = Local, m,
                 CloneBefore(t, src = Local, m))

\* TreeDatabase.applyModification
ApplyModificationChain(t, pe, src, m) ==
    FlushOrReset(ApplyToStorage(StartStorage(t, pe), m), src = Local, m,
                 CloneBefore(t, src = Local, m))

ApplyModification(src, m) ==
    /\ Idle
    /\ DepthOK(m)
    /\ \E s \in {ApplyModificationChain(tree, pend, src, m)} :
          Commit(s, Op("apply", Header(m), src, 0, FALSE))

\* TreeStorage.observe at subscription time: getNodePromise
Subscribe(i, path) ==
    /\ Idle
    /\ subs[i].st = "none"
    /\ \A j \in SubIds : j < i => subs[j].st # "none"
    /\ LET node == GetNode(tree, path) IN
       IF node # NoNode
       THEN /\ subs' = [subs EXCEPT ![i] = [NoSub EXCEPT !.st = "resolved", !.path = path, !.node = node]]
            /\ mq' = Append(mq, i)
            /\ pend' = pend
       ELSE /\ subs' = [subs EXCEPT ![i] = [NoSub EXCEPT !.st = "waiting", !.path = path, !.cb = TRUE]]
            /\ mq' = mq
            /\ pend' = MapPut(pend, path, IF path \in DOMAIN pend THEN Append(pend[path], i) ELSE <<i>>)
    /\ log' = <<>>
    /\ delivered' = NoneDelivered
    /\ lastOp' = Op("subscribe", Header([NoMod EXCEPT !.path = path]), "-", i, FALSE)
    /\ UNCHANGED <<readonly, tree, snap, taken, future, base>>

\* the queued then-callbacks of one subscription run: the state burst of
\* getStateObservable, then the subscription to node.changes
Deliver ==
    /\ Idle
    /\ mq # <<>>
    /\ LET i == Head(mq)
           cur == subs[i]
           burst == IF cur.st = "resolved" THEN StateEvents(tree, cur.node)
                    ELSE IF cur.st = "stale" THEN StateEventsOfCopy(cur.node, cur.copy)
                    ELSE <<>>
           st == IF cur.st = "resolved" THEN "attached"
                 ELSE IF cur.st = "stale" THEN "done" ELSE "error"
       IN  /\ subs' = [subs EXCEPT ![i].st = st]
           /\ delivered' = [NoneDelivered EXCEPT ![i] = Strict([j \in 1..Len(burst) |-> ToDataEvent(cur.path, burst[j])])]
           /\ pend' = IF st = "attached" THEN pend ELSE CleanupNodePromise(pend, cur.path, i, cur.cb)
           /\ lastOp' = Op("deliver", Header([NoMod EXCEPT !.path = cur.path]), "-", i, FALSE)
    /\ mq' = Tail(mq)
    /\ log' = <<>>
    /\ UNCHANGED <<readonly, tree, snap, taken, future, base>>

\* Subscription.unsubscribe: the finally of observe runs cleanupNodePromise
Unsubscribe(i) ==
    /\ Idle
    /\ subs[i].st # "none"
    /\ subs' = [subs EXCEPT ![i] = NoSub]
    /\ mq' = SelectSeq(mq, LAMBDA j : j # i)
    /\ pend' = IF subs[i].st \in {"done", "error"} THEN pend
               ELSE CleanupNodePromise(pend, subs[i].path, i, subs[i].cb)
    /\ log' = <<>>
    /\ delivered' = NoneDelivered
    /\ lastOp' = Op("unsubscribe", Header([NoMod EXCEPT !.path = subs[i].path]), "-", i, FALSE)
    /\ UNCHANGED <<readonly, tree, snap, taken, future, base>>

\* the call returns to its caller: log, delivered and lastOp describe one
\* call only and are dropped before the next call is made
Return ==
    /\ ~Idle
    /\ log' = <<>>
    /\ delivered' = NoneDelivered
    /\ lastOp' = IdleOp
    /\ subs' = Strict([i \in SubIds |-> IF subs[i].st \in {"done", "error"} THEN NoSub ELSE subs[i]])
    /\ UNCHANGED <<readonly, tree, pend, mq, snap, taken, future, base>>

\* a consumer takes a snapshot of the live node at p and keeps it
TakeSnapshot(p) ==
    /\ Idle
    /\ tree[p].live
    /\ snap' = Take(tree, p)
    /\ taken' = [value |-> tree[p].value, json |-> ToJSON(tree, p), keys |-> tree[p].children,
                 kids |-> Strict([k \in Range(tree[p].children) |-> ToJSON(tree, Append(p, k))])]
    /\ log' = <<>>
    /\ delivered' = NoneDelivered
    /\ lastOp' = Op("take", Header([NoMod EXCEPT !.path = PathString(p)]), "-", 0, FALSE)
    /\ UNCHANGED <<readonly, tree, pend, subs, mq, future, base>>

\* ------------------------------------------------------ specifications
\* Spec: a writable database written through refs and through the inbound sink
InitWritable == Init /\ ~readonly

Next ==
    \/ \E m \in Mods : RefWrite(m)
    \/ \E src \in {Local, Remote}, m \in Mods : ApplyModification(src, m)
    \/ Return

Spec == InitWritable /\ [][Next]_vars

\* SpecReadonly: a read-only database; its tree changes through the sink only
InitReadonly == Init /\ readonly

NextReadonly ==
    \/ \E m \in Mods : RefWriteReadonly(m)
    \/ \E src \in {Local, Remote}, m \in Mods : ApplyModification(src, m)
    \/ Return

SpecReadonly == InitReadonly /\ [][NextReadonly]_vars

\* SpecSubs: one subscription at a or a/b while the tree at and below a is written
SubPaths == {<<"a">>, <<"a", "b">>}
SubValues == {"1"}

InSubMods(m) ==
    /\ m.path \in SubPaths
    /\ m.type = "setValue" => m.value \in SubValues
    /\ m.type \in {"setValues", "updateChildValues"} =>
          \A i \in 1..Len(m.values) : m.values[i].value \in SubValues

SubMods == {m \in Mods : InSubMods(m)}

NextSubs ==
    \/ \E path \in SubPaths : Subscribe(1, path)
    \/ Deliver
    \/ Unsubscribe(1)
    \/ \E m \in SubMods : RefWrite(m)
    \/ \E m \in SubMods : ApplyModification(Local, m)
    \/ Return

SpecSubs == InitWritable /\ [][NextSubs]_vars

\* SpecPair: several subscriptions at a and a/b while a/b is created and removed
PairMods ==
    {UpdateMod(<<"a">>, <<[key |-> <<"b">>, value |-> "1"]>>),
     SetValueMod(<<"a", "b">>, "1"),
     RemoveMod(<<"a", "b">>),
     RemoveMod(<<"a">>)}

NextPair ==
    \/ \E i \in SubIds, path \in SubPaths : Subscribe(i, path)
    \/ Deliver
    \/ \E m \in PairMods : RefWrite(m)
    \/ Return

SpecPair == InitWritable /\ [][NextPair]_vars

\* SpecDetach: subscriptions at a and a/b while a/b and a are created,
\* overwritten, cleared and removed
DetachMods ==
    {SetValueMod(<<"a", "b">>, "1"),
     SetValueMod(<<"a">>, "1"),
     SetValueMod(<<"a">>, "0"),
     SetValuesMod(<<"a">>, <<[key |-> <<"b">>, value |-> "1"]>>),
     RemoveMod(<<"a", "b">>),
     RemoveMod(<<"a">>)}

NextDetach ==
    \/ \E i \in SubIds, path \in SubPaths : Subscribe(i, path)
    \/ Deliver
    \/ \E m \in DetachMods : RefWrite(m)
    \/ Return

SpecDetach == InitWritable /\ [][NextDetach]_vars

\* SpecCancel: subscriptions at a and a/b are made and cancelled while a/b is
\* created and removed
NextCancel ==
    \/ \E i \in SubIds, path \in SubPaths : Subscribe(i, path)
    \/ \E i \in SubIds : Unsubscribe(i)
    \/ Deliver
    \/ \E m \in PairMods : RefWrite(m)
    \/ Return

SpecCancel == InitWritable /\ [][NextCancel]_vars

\* SpecChild: writes through the refs ref(p).child(k)
\* TreeDatabaseRef.child: this.path + '/' + path, as the segments split('/')
\* yields; the path '' has the one segment ''
RefChild(path, k) == path \o <<k>>

\* ref(p).child(k) stays inside the model's tree
ChildOK(path, k) == Append(Walked(path), k) \in NodePaths

\* ref(path).child(k).setValue(value)
ChildSetValue(path, k, value) ==
    /\ ChildOK(path, k)
    /\ RefWrite(SetValueMod(RefChild(path, k), value))

\* ref(path).child(k).remove()
ChildRemove(path, k) ==
    /\ ChildOK(path, k)
    /\ RefWrite(RemoveMod(RefChild(path, k)))

NextChild ==
    \/ \E path \in PathStrings, k \in Keys, value \in Values : ChildSetValue(path, k, value)
    \/ \E path \in PathStrings, k \in Keys : ChildRemove(path, k)
    \/ \E m \in PairMods : RefWrite(m)
    \/ Return

SpecChild == InitWritable /\ [][NextChild]_vars

\* SpecSnapshot: a snapshot is taken and kept while the tree is written
NextSnapshot ==
    \/ \E p \in NodePaths : TakeSnapshot(p)
    \/ \E m \in SubMods : RefWrite(m)
    \/ Return

SpecSnapshot == InitWritable /\ [][NextSnapshot]_vars

\* SpecMerge: markChildAsChanged and the flush called directly on a tree whose
\* node a has the children a and b
\* node.markChildAsChanged(key, type) on the node at p
MarkChild(p, key, type) ==
    /\ Idle
    /\ tree[p].live
    /\ \E s \in {MarkChildAsChanged(StartStorage(tree, pend), p, key, type)} :
          Commit(s, Op("mark", [type |-> type, path |-> Append(p, key)], "-", 0, FALSE))

\* storage.triggerRecordChangeNotifications() on its own
Flush ==
    /\ Idle
    /\ \E s \in {TriggerRecordChangeNotifications(StartStorage(tree, pend))} :
          Commit(s, Op("flush", Header(NoMod), "-", 0, FALSE))

\* the tree ref('a').update({a: 1, b: 1}) builds on an empty database
MergeTree ==
    RefWriteChain(EmptyTree, <<>>,
                  UpdateMod(<<"a">>, <<[key |-> <<"a">>, value |-> "1"],
                                       [key |-> <<"b">>, value |-> "1"]>>)).t

InitMerge ==
    /\ readonly = FALSE
    /\ tree = MergeTree
    /\ pend = <<>>
    /\ subs = Strict([i \in SubIds |-> NoSub])
    /\ mq = <<>>
    /\ log = <<>>
    /\ delivered = NoneDelivered
    /\ lastOp = IdleOp
    /\ snap = NoSnapshot
    /\ taken = NoSnapshot
    /\ future = NoFuture
    /\ base = FlushPoint(tree)

ChangeTypes == {Added, Changed, Removed}

NextMerge ==
    \/ \E p \in {<<>>, <<"a">>}, key \in Keys, type \in ChangeTypes : MarkChild(p, key, type)
    \/ Flush
    \/ Return

SpecMerge == InitMerge /\ [][NextMerge]_vars

\* SpecStorage: the public methods of TreeStorage called one by one, the
\* flush being a call of its own, with one subscription
\* storage.setValue / setValues / updateValues / removeValue on its own
StorageCall(m) ==
    /\ Idle
    /\ DepthOK(m)
    /\ \E s \in {ApplyToStorage(StartStorage(tree, pend), m)} :
          Commit(s, Op("storage", Header(m), "-", 0, FALSE))

NextStorage ==
    \/ \E path \in SubPaths : Subscribe(1, path)
    \/ Deliver
    \/ \E m \in SubMods : StorageCall(m)
    \/ Flush
    \/ Return

SpecStorage == InitWritable /\ [][NextStorage]_vars

\* SpecLedger: the public methods of TreeStorage called one by one on a tree
\* nobody subscribes to; the flush and the reset are calls of their own
\* storage.resetRecordedChanges() on its own
Reset ==
    /\ Idle
    /\ \E s \in {ResetRecordedChanges(StartStorage(tree, pend))} :
          Commit(s, Op("reset", Header(NoMod), "-", 0, FALSE))

LedgerValues == {"0", "1"}

\* the writes of Mods at a and below it with a falsy or a truthy value, every
\* removal, and a values map whose keys overlap: {'a/b': 1, 'a': 1}
LedgerMods ==
    {m \in Mods :
        /\ m.path # RootPath \/ m.type = "remove"
        /\ m.type = "setValue" => m.value \in LedgerValues
        /\ m.type \in {"setValues", "updateChildValues"} =>
              \A i \in 1..Len(m.values) : m.values[i].value \in LedgerValues}
    \cup {SetValuesMod(RootPath, <<[key |-> <<"a", "b">>, value |-> "1"],
                                   [key |-> <<"a">>, value |-> "1"]>>)}

NextLedger ==
    \/ \E m \in LedgerMods : StorageCall(m)
    \/ Flush
    \/ Reset
    \/ Return

SpecLedger == InitWritable /\ [][NextLedger]_vars

\* SpecGetValue: one call of getValue while a/b is created and removed
\* ref(path).getValue(): a subscription to changes({ValueChanged}).first()
GetValue(path) ==
    /\ Idle
    /\ future.st = "none"
    /\ subs[1].st = "none"
    /\ IF GetNode(tree, path) # NoNode
       THEN /\ subs' = [subs EXCEPT ![1] = [NoSub EXCEPT !.st = "resolved", !.path = path,
                                                      !.node = GetNode(tree, path)]]
            /\ mq' = Append(mq, 1)
            /\ pend' = pend
       ELSE /\ subs' = [subs EXCEPT ![1] = [NoSub EXCEPT !.st = "waiting", !.path = path, !.cb = TRUE]]
            /\ mq' = mq
            /\ pend' = MapPut(pend, path, IF path \in DOMAIN pend THEN Append(pend[path], 1) ELSE <<1>>)
    /\ future' = [NoFuture EXCEPT !.st = "pending", !.sub = 1, !.path = path]
    /\ log' = <<>>
    /\ delivered' = NoneDelivered
    /\ lastOp' = Op("getValue", Header([NoMod EXCEPT !.path = path]), "-", 1, FALSE)
    /\ UNCHANGED <<readonly, tree, snap, taken, base>>

\* the events of a burst that pass filter(e => eventTypes.has(e.type)) of
\* changes(new Set([ValueChanged]))
ValueChangedOnly(burst) == SelectSeq(burst, LAMBDA e : e.type = ValueChanged)

\* the observer of getValue: next resolves with event.value.toJSON(); the
\* error handler `() => reject` returns reject without calling it
Settle(fut, events) ==
    IF events # <<>> THEN [fut EXCEPT !.st = "resolved", !.value = CopyToJSON(events[1].copy)]
    ELSE fut

\* the queued then-callbacks of the subscription of getValue run: first()
\* takes the ValueChanged of the state burst and completes; a promise that
\* resolved with null makes getStateObservable throw, an error of the stream
DeliverFirst ==
    /\ Idle
    /\ mq # <<>>
    /\ future.st = "pending"
    /\ future.sub = Head(mq)
    /\ LET i == Head(mq)
           cur == subs[i]
           burst == IF cur.st = "resolved" THEN ValueChangedOnly(StateEvents(tree, cur.node))
                    ELSE IF cur.st = "stale" THEN ValueChangedOnly(StateEventsOfCopy(cur.node, cur.copy))
                    ELSE <<>>
           st == IF cur.st \in {"resolved", "stale"} THEN "done" ELSE "error"
       IN  /\ subs' = [subs EXCEPT ![i].st = st]
           /\ delivered' = [NoneDelivered EXCEPT ![i] = Strict([j \in 1..Len(burst) |-> ToDataEvent(cur.path, burst[j])])]
           /\ pend' = CleanupNodePromise(pend, cur.path, i, cur.cb)
           /\ future' = Settle(future, burst)
           /\ lastOp' = Op("deliver", Header([NoMod EXCEPT !.path = cur.path]), "-", i, FALSE)
    /\ mq' = Tail(mq)
    /\ log' = <<>>
    /\ UNCHANGED <<readonly, tree, snap, taken, base>>

\* the writes of SpecPair, and a setValues at the root whose keys are the
\* compound path a/b and then a
GetValueMods ==
    PairMods
    \cup {SetValuesMod(RootPath, <<[key |-> <<"a", "b">>, value |-> "1"],
                                   [key |-> <<"a">>, value |-> "1"]>>),
          SetValuesMod(<<"a">>, <<[key |-> <<"a">>, value |-> "1"]>>)}

NextGetValue ==
    \/ \E path \in SubPaths : GetValue(path)
    \/ DeliverFirst
    \/ \E m \in GetValueMods : RefWrite(m)
    \/ Return

SpecGetValue == InitWritable /\ [][NextGetValue]_vars

\* ------------------------------------------------------------- properties
\* the projection of a values map: the object with its keys and values
ValuesJSON(values) ==
    [obj |-> [k \in {values[i].key[1] : i \in 1..Len(values)} |->
                [prim |-> (CHOOSE e \in Range(values) : e.key[1] = k).value]]]

\* two Node objects hold the same content: the same value, the same set of
\* child keys, and the same content under every key
RECURSIVE SameContent(_, _)
SameContent(c, d) ==
    /\ c.value = d.value
    /\ Range(c.keys) = Range(d.keys)
    /\ \A k \in Range(c.keys) : SameContent(c.kids[k], d.kids[k])

\* this step is applyModification of a SetValues from src whose target node
\* existed before the write and holds the same content after it
EchoStep(src) ==
    /\ lastOp'.op = "apply"
    /\ lastOp'.src = src
    /\ lastOp'.mod.type = "setValues"
    /\ ~lastOp'.threw
    /\ GetNode(tree, lastOp'.mod.path) # NoNode
    /\ GetNode(tree', lastOp'.mod.path) # NoNode
    /\ SameContent(Clone(tree, GetNode(tree, lastOp'.mod.path)),
                   Clone(tree', GetNode(tree', lastOp'.mod.path)))

\* C1 (as the spec states it): after any sequence of writes no node of the
\* live tree holds a non-null value and at least one child at the same time.
\* The code breaks it: setValueInternal keeps the children when the new value
\* is falsy, and resolveChild keeps a falsy value when it adds a child.
C1_NoValueWithChildren ==
    \A p \in NodePaths :
        tree[p].live => ~(tree[p].value # Null /\ tree[p].children # <<>>)

\* C2 (as the spec states it): after a ref's setValues(p, V) the JSON
\* projection of the node at p is exactly V.  The code breaks it: a previous
\* value survives when it is falsy or when V is empty.
C2_SetValuesProjectsToValues ==
    (lastOp.op = "ref" /\ ~lastOp.threw /\ lastOp.mod.type = "setValues")
        => ToJSON(tree, Walked(lastOp.mod.path)) = ValuesJSON(lastOp.mod.values)

\* C3: when applyModification receives a Local SetValues whose target existed
\* before and holds the same content after the write, no node publishes any
\* change event in that step (so no subscriber can receive one), nothing is
\* delivered, and every ledger of the tree is empty afterwards.
C3_LocalEchoDiscardsLedger ==
    [][EchoStep(Local) =>
          /\ Events(log') = <<>>
          /\ delivered' = NoneDelivered
          /\ \A p \in NodePaths : tree'[p].changed = <<>>]_vars

\* C3 witness: a Local SetValues replaced the children of a node (their
\* publishers completed) by equal ones and published no event
C3_Witness ==
    /\ lastOp.op = "apply"
    /\ lastOp.src = Local
    /\ lastOp.mod.type = "setValues"
    /\ ~lastOp.threw
    /\ Completions(log) # <<>>
    /\ tree[Walked(lastOp.mod.path)].children # <<>>
    /\ Events(log) = <<>>

\* C4 (as the spec states it): a Remote SetValues that leaves the content of
\* its target the same is suppressed: it publishes no change event.
C4_RemoteEchoSuppressed ==
    [][EchoStep(Remote) => Events(log') = <<>>]_vars

\* C4 (amended): of two SetValues that leave the content of an existing
\* target the same, only the Local one is suppressed.  The Remote one is
\* flushed: when it writes at least one key its step publishes change events,
\* a ChildChanged for the target's child among them.
C4_EchoSuppressedOnlyWhenLocal ==
    [][/\ EchoStep(Local) => Events(log') = <<>>
       /\ (EchoStep(Remote) /\ tree'[Walked(lastOp'.mod.path)].children # <<>>) =>
             \E i \in 1..Len(log') :
                /\ log'[i].what = "event"
                /\ log'[i].type = ChildChangedEv
                /\ log'[i].at = Walked(lastOp'.mod.path)]_vars

\* C4 witness: a Remote SetValues rewrote the same content and its flush fired
C4_Witness ==
    /\ lastOp.op = "apply"
    /\ lastOp.src = Remote
    /\ lastOp.mod.type = "setValues"
    /\ ~lastOp.threw
    /\ Completions(log) # <<>>
    /\ Events(log) # <<>>
    /\ \A i \in 1..Len(log) : log[i].what = "event" => log[i].type \in {ChildChangedEv, ValueChanged}

\* C5: on a read-only database every ref write throws before doing anything:
\* the tree (content and ledgers), the pending-callback map, the
\* subscriptions and the queued callbacks are unchanged, nothing is published
\* on the outgoing stream, no node publishes an event and nothing is delivered.
C5_ReadonlyRefWriteChangesNothing ==
    [][(readonly /\ lastOp'.op = "ref") =>
          /\ lastOp'.threw
          /\ tree' = tree
          /\ pend' = pend
          /\ subs' = subs
          /\ mq' = mq
          /\ log' = <<>>
          /\ delivered' = NoneDelivered]_vars

\* C5 witness: a ref write on a read-only database whose tree holds data
\* (applied through the inbound sink) threw
C5_Witness ==
    /\ readonly
    /\ lastOp.op = "ref"
    /\ lastOp.threw
    /\ tree[<<"a">>].live
    /\ tree[<<"a">>].children # <<>>

\* C6: a ref write that does not throw publishes exactly one Modification,
\* the one of its kind, path and payload; the tree content at the time of the
\* publication is the content the write leaves (the mutation is complete), and
\* the publication precedes every change event of the flush.
C6_PublishAfterMutationBeforeEvents ==
    (lastOp.op = "ref" /\ ~lastOp.threw) =>
        /\ Len(Published(log)) = 1
        /\ Published(log)[1].mod = lastOp.mod
        /\ Published(log)[1].content = Clone(tree, <<>>)
        /\ \A i, j \in 1..Len(log) :
              (log[i].what = "publish" /\ log[j].what = "event") => i < j

\* C6 witness: a ref write completed publishers while mutating, published its
\* Modification, and its flush fired events
C6_Witness ==
    /\ lastOp.op = "ref"
    /\ ~lastOp.threw
    /\ Len(Published(log)) = 1
    /\ Completions(log) # <<>>
    /\ Events(log) # <<>>

\* the replay burst of a subscription whose node holds the content c: a
\* ChildAdded for every child of the node, in the order of its children,
\* then one ValueChanged for the node itself
ReplayBurst(node, c) ==
    Strict([j \in 1..(Len(c.keys) + 1) |->
        IF j <= Len(c.keys)
        THEN [type |-> ChildAdded, path |-> Append(node, c.keys[j]), key |-> c.keys[j],
              copy |-> c.kids[c.keys[j]]]
        ELSE [type |-> ValueChanged, path |-> PathString(node),
              key |-> IF node = <<>> THEN "" ELSE Last(node), copy |-> c]])

\* the content of the Node object a subscription was resolved with: the live
\* node, or the node as it was removed from the tree
ResolvedContent(i) ==
    IF subs[i].st = "resolved" THEN Clone(tree, subs[i].node) ELSE subs[i].copy

\* this step runs the queued callbacks of subscription i, which was resolved
\* at subscription time (direct) or by a later write (~direct)
ReplayStep(i, direct) ==
    /\ lastOp'.op = "deliver"
    /\ lastOp'.sub = i
    /\ subs[i].cb = ~direct
    /\ subs[i].st \in {"resolved", "stale"}

\* C7: a subscription to a path whose node exists when observe is called
\* receives, when its callbacks run, one ChildAdded per child of the node in
\* order and then exactly one ValueChanged, and nothing else in that step; the
\* callbacks run once (the subscription is attached or complete afterwards and
\* no longer queued), and it receives further events only in the step of a
\* write whose flush publishes events, after the burst.
C7_ReplayOnSubscribe ==
    [][\A i \in SubIds :
          /\ ReplayStep(i, TRUE) =>
                /\ delivered'[i] = ReplayBurst(subs[i].node, ResolvedContent(i))
                /\ subs'[i].st \in {"attached", "done"}
                /\ i \notin Range(mq')
          /\ (~subs[i].cb /\ delivered'[i] # <<>> /\ lastOp'.op # "deliver") =>
                /\ lastOp'.op \in {"ref", "apply"}
                /\ subs[i].st = "attached"
                /\ Events(log') # <<>>]_vars

\* C7 witness: the burst of a subscription to an existing node with children
\* was delivered and the subscription is attached
C7_Witness ==
    /\ lastOp.op = "deliver"
    /\ ~subs[1].cb
    /\ subs[1].st = "attached"
    /\ Len(delivered[1]) >= 2
    /\ delivered[1][1].type = ChildAdded

C9_RemoveCompletesAndNotifiesParent ==
    [][\A i, j \in SubIds :
          (/\ subs[i].st = "attached"
           /\ subs[i].path = <<"a">>
           /\ subs[j].st = "attached"
           /\ subs[j].path = <<"a", "b">>
           /\ lastOp'.op = "ref"
           /\ lastOp'.mod = RemoveMod(<<"a", "b">>))
          => /\ ~lastOp'.threw
             /\ subs'[j].st = "done"
             /\ delivered'[j] = <<>>
             /\ subs'[i].st = "attached"
             /\ SelectSeq(delivered'[i], LAMBDA e : e.type = ChildRemoved)
                   = <<[type |-> ChildRemoved, path |-> <<"a", "b">>, key |-> "b",
                        copy |-> EmptyCopy]>>]_vars

\* C9 witness: remove() on a/b completed a subscription at a/b while a
\* subscription at a stayed attached and received events
C9_Witness ==
    /\ lastOp.op = "ref"
    /\ lastOp.mod = RemoveMod(<<"a", "b">>)
    /\ \E i, j \in SubIds :
          /\ subs[i].st = "attached"
          /\ subs[i].path = <<"a">>
          /\ delivered[i] # <<>>
          /\ subs[j].st = "done"
          /\ subs[j].path = <<"a", "b">>

\* C10: whatever is written to the live tree after a snapshot was taken, the
\* snapshot's value, its children (keys, order and the projection of each)
\* and its JSON projection are those of the node when it was taken.
C10_SnapshotNeverChanges ==
    snap.taken =>
        /\ SnapshotValue(snap, tree) = taken.value
        /\ SnapshotToJSON(snap, tree) = taken.json
        /\ SnapshotChildKeys(snap, tree) = taken.keys
        /\ \A k \in Range(taken.keys) : SnapshotChildJSON(snap, tree, k) = taken.kids[k]

\* C10 witness: a snapshot of a node with children is held while the node at
\* its path has lost them
C10_Witness ==
    /\ snap.taken
    /\ taken.keys # <<>>
    /\ tree[Walked(snap.path)].children = <<>>
    /\ lastOp.op = "ref"

\* the merge table of the specification: the entry that results from the
\* existing entry E and the incoming mutation N (NoType: no entry)
MergeTable(E, N) ==
    IF E = NoType THEN N
    ELSE IF E = Added THEN (IF N = Removed THEN NoType ELSE Added)
    ELSE IF E = Changed THEN (IF N = Removed THEN Removed ELSE Changed)
    ELSE (IF N = Added THEN Changed ELSE Removed)

\* C11 (as the spec states it): markChildAsChanged(key, N) on a node whose
\* ledger holds E for key (or nothing) leaves the entry the merge table gives.
\* The code breaks it in two cells: Changed+Added leaves Added, and
\* Removed+Changed leaves Changed.
C11_MergeTable ==
    [][(lastOp'.op = "mark" /\ ~lastOp'.threw) =>
          LedgerGet(tree'[Front(lastOp'.mod.path)].changed, Last(lastOp'.mod.path))
             = MergeTable(LedgerGet(tree[Front(lastOp'.mod.path)].changed, Last(lastOp'.mod.path)),
                          lastOp'.mod.type)]_vars

\* C12: a flush leaves the root's ledger empty and does not throw, and a flush
\* that starts with the root's ledger empty (no mutation since the previous
\* flush, or none at all) publishes no event, delivers nothing to any
\* subscription and changes nothing: tree, ledgers, pending callbacks,
\* subscriptions and queued callbacks are the same.
C12_FlushIdempotent ==
    [][lastOp'.op = "flush" =>
          /\ ~lastOp'.threw
          /\ tree'[<<>>].changed = <<>>
          /\ tree[<<>>].changed = <<>> =>
                /\ log' = <<>>
                /\ delivered' = NoneDelivered
                /\ tree' = tree
                /\ pend' = pend
                /\ subs' = subs
                /\ mq' = mq]_vars

\* C12 witness: a flush on a store that holds data and an attached
\* subscription, all of whose ledgers a previous flush emptied, emitted nothing
C12_Witness ==
    /\ lastOp.op = "flush"
    /\ log = <<>>
    /\ tree[<<"a">>].live
    /\ tree[<<"a">>].children # <<>>
    /\ subs[1].st = "attached"
    /\ \A p \in NodePaths : tree[p].changed = <<>>

\* C13 (as the spec states it): whatever a ref write makes an observer see,
\* the observer sees it with the tree in the state the write leaves: the
\* outgoing Modification, the completion of every subscription attached to a
\* removed node, and every change event a subscription receives (the event's
\* node holding its final content).  The code breaks it for completions:
\* node.disconnect() runs before the node is taken out of its parent.
C13_NoPartialStateObserved ==
    [][(lastOp'.op = "ref" /\ ~lastOp'.threw) =>
          \A k \in 1..Len(log') :
             /\ log'[k].what = "publish" => log'[k].content = Clone(tree', <<>>)
             /\ (log'[k].what = "complete"
                    /\ \E i \in SubIds : subs[i].st = "attached" /\ subs[i].node = log'[k].node)
                  => log'[k].root = Clone(tree', <<>>)
             /\ (log'[k].what = "event" /\ log'[k].type # ChildRemoved
                    /\ \E i \in SubIds : subs[i].st = "attached" /\ subs[i].node = log'[k].at)
                  => log'[k].copy = Clone(tree', log'[k].node)]_vars

\* C14 (as the spec states it): the future of getValue() at p is pending
\* only while p has no node: once every queued callback has run, a pending
\* future means there is no node at p; a future resolves with the projection
\* of the ValueChanged event it received, and a resolved future never changes.
\* The code breaks the first part: a write that calls the parked callback
\* with null ends the subscription, and the future stays pending when p is
\* created afterwards.
C14_GetValueResolves ==
    [][/\ (future'.st = "pending" /\ lastOp' = IdleOp /\ mq' = <<>>)
             => GetNode(tree', future'.path) = NoNode
       /\ (future.st = "pending" /\ future'.st = "resolved")
             => /\ Len(delivered'[future.sub]) = 1
                /\ delivered'[future.sub][1].type = ValueChanged
                /\ future'.value = CopyToJSON(delivered'[future.sub][1].copy)
       /\ future'.st # "rejected"
       /\ future.st = "resolved" => future' = future]_vars

\* C15 (as the spec states it): when the change stream under getValue()
\* ends with an error, the future is rejected.  The code breaks it: the error
\* handler is `() => reject`, which never calls reject.
C15_ErrorRejects ==
    \A i \in SubIds :
        (future.sub = i /\ subs[i].st = "error") => future.st = "rejected"

\* the children of the node at p that the values of m do not mention
Unmentioned(t, p, m) ==
    {k \in Range(t[p].children) : \A i \in 1..Len(m.values) : m.values[i].key[1] # k}

\* C16: a ref's update(V) at an existing node p leaves every child of p that
\* V does not mention untouched: it is still a child of p and holds the same
\* value and subtree, no publisher at or below it completes, the storage call
\* records no ledger entry for it in p and none in its own ledger, and the
\* flush publishes no event for it (no child event on p with its key, no
\* event at or below it).
C16_UpdateLeavesOthersUntouched ==
    [][(lastOp'.op = "ref" /\ ~lastOp'.threw /\ lastOp'.mod.type = "updateChildValues"
           /\ GetNode(tree, lastOp'.mod.path) # NoNode) =>
          \A k \in Unmentioned(tree, Walked(lastOp'.mod.path), lastOp'.mod) :
             /\ k \in Range(tree'[Walked(lastOp'.mod.path)].children)
             /\ Clone(tree', Append(Walked(lastOp'.mod.path), k))
                   = Clone(tree, Append(Walked(lastOp'.mod.path), k))
             /\ LedgerGet(ApplyToStorage(StartStorage(tree, pend), lastOp'.mod)
                             .t[Walked(lastOp'.mod.path)].changed, k) = NoType
             /\ ApplyToStorage(StartStorage(tree, pend), lastOp'.mod)
                   .t[Append(Walked(lastOp'.mod.path), k)].changed = <<>>
             /\ \A j \in 1..Len(log') :
                   /\ log'[j].what = "complete"
                         => ~IsPrefix(Append(Walked(lastOp'.mod.path), k), log'[j].node)
                   /\ log'[j].what = "event"
                         => /\ ~(log'[j].type # ValueChanged
                                  /\ log'[j].at = Walked(lastOp'.mod.path) /\ log'[j].key = k)
                            /\ ~IsPrefix(Append(Walked(lastOp'.mod.path), k), log'[j].at)]_vars

\* C16 witness: an update changed the node a, which still has a child the
\* values did not mention
C16_Witness ==
    /\ lastOp.op = "ref"
    /\ ~lastOp.threw
    /\ lastOp.mod.type = "updateChildValues"
    /\ lastOp.mod.path = <<"a">>
    /\ Unmentioned(tree, <<"a">>, lastOp.mod) # {}
    /\ Events(log) # <<>>

\* C17 (as the spec states it, for the nodes below the root; the root of an
\* empty database has no value and no child from its construction): every
\* node of the live tree has either a primitive value or at least one child,
\* and not both.  The code breaks it both ways: a node created by a write of
\* an empty values map, or left behind when its last child is removed, has
\* neither; a node holding 0 can have children.
C17_ExactlyOneOfValueOrChildren ==
    \A p \in NodePaths \ {<<>>} :
        tree[p].live => (tree[p].value # Null) # (tree[p].children # <<>>)

\* two events of one flush that a subscriber of the node `at` would count as
\* the same notification: two ValueChanged, or two child events for one key
Duplicates(e, f) ==
    /\ e.at = f.at
    /\ \/ e.type = ValueChanged /\ f.type = ValueChanged
       \/ e.type # ValueChanged /\ f.type # ValueChanged /\ e.key = f.key

\* C18: whatever storage writes were made since the previous flush, a flush
\* publishes on each node at most one child event per child key and at most
\* one ValueChanged, and each subscription receives at most one child event
\* per key and at most one ValueChanged.
C18_FlushDeduplicates ==
    lastOp.op = "flush" =>
        /\ \A i, j \in 1..Len(log) :
              (i < j /\ log[i].what = "event" /\ log[j].what = "event")
                 => ~Duplicates(log[i], log[j])
        /\ \A n \in SubIds : \A i, j \in 1..Len(delivered[n]) :
              i < j => ~(\/ /\ delivered[n][i].type = ValueChanged
                            /\ delivered[n][j].type = ValueChanged
                         \/ /\ delivered[n][i].type # ValueChanged
                            /\ delivered[n][j].type # ValueChanged
                            /\ delivered[n][i].key = delivered[n][j].key)

\* C18 witness: a flush delivered to the subscription attached at a a child
\* event for each of two keys and the ValueChanged of a
C18_Witness ==
    /\ lastOp.op = "flush"
    /\ subs[1].st = "attached"
    /\ subs[1].path = <<"a">>
    /\ Len(delivered[1]) = 3
    /\ delivered[1][3].type = ValueChanged

\* C19: from every state a database can be in, applyModification of a
\* modification tagged Local and of the same modification tagged Remote
\* leave the same tree (values, children and ledgers, hence the same JSON
\* projection of the root) and throw in the same cases; two databases fed
\* the same modifications with different tags are therefore equal after
\* every step.
C19_SourceDoesNotChangeContent ==
    Idle =>
        \A m \in Mods :
            DepthOK(m) =>
               /\ ApplyModificationChain(tree, pend, Local, m).t
                     = ApplyModificationChain(tree, pend, Remote, m).t
               /\ ApplyModificationChain(tree, pend, Local, m).err
                     = ApplyModificationChain(tree, pend, Remote, m).err
               /\ ToJSON(ApplyModificationChain(tree, pend, Local, m).t, <<>>)
                     = ToJSON(ApplyModificationChain(tree, pend, Remote, m).t, <<>>)

\* C19 witness: a database in which the same SetValues is suppressed when it
\* is tagged Local and flushed with events when it is tagged Remote
C19_Witness ==
    /\ Idle
    /\ \E m \in Mods :
          /\ DepthOK(m)
          /\ m.type = "setValues"
          /\ Completions(ApplyModificationChain(tree, pend, Local, m).log) # <<>>
          /\ Events(ApplyModificationChain(tree, pend, Local, m).log) = <<>>
          /\ Events(ApplyModificationChain(tree, pend, Remote, m).log) # <<>>

\* the change events of a call that a node published, as a subscription at
\* path receives them
EventsAt(lg, node, path) ==
    Strict([j \in 1..Len(SelectSeq(Events(lg), LAMBDA e : e.at = node)) |->
              ToDataEvent(path, SelectSeq(Events(lg), LAMBDA e : e.at = node)[j])])

\* C20: the step of a ref write delivers to every subscription that was
\* attached before it, and whose node the write did not remove, exactly the
\* events the flush of that write published on its node, in order; no later
\* step hands over events of the write: the return of a call, a subscribe and
\* an unsubscribe deliver nothing, and the callbacks of a subscription
\* deliver to that subscription only.
C20_SynchronousDelivery ==
    [][/\ (lastOp'.op = "ref" /\ ~lastOp'.threw) =>
             \A i \in SubIds :
                (subs[i].st = "attached" /\ subs[i].node \notin CompletedNodes(log'))
                   => delivered'[i] = EventsAt(log', subs[i].node, subs[i].path)
       /\ lastOp'.op \in {"idle", "subscribe", "unsubscribe"} => delivered' = NoneDelivered
       /\ lastOp'.op = "deliver" =>
             \A i \in SubIds : i # lastOp'.sub => delivered'[i] = <<>>]_vars

\* C20 witness: a setValue through a ref delivered events to two attached
\* subscriptions in its own step
C20_Witness ==
    /\ lastOp.op = "ref"
    /\ lastOp.mod.type = "setValue"
    /\ \A i \in SubIds : subs[i].st = "attached" /\ delivered[i] # <<>>

\* C21 (as the spec states it): a ref's setValue(v) at a node that has
\* children removes them all, whatever the primitive v: the node has no child
\* afterwards, the node publishes one ChildRemoved per former child, and the
\* publisher of every former child and of every node below it completes.
\* The code breaks it for a falsy v: setValueInternal keeps the children.
C21_SetValueRemovesChildren ==
    [][(lastOp'.op = "ref" /\ ~lastOp'.threw /\ lastOp'.mod.type = "setValue"
           /\ GetNode(tree, lastOp'.mod.path) # NoNode
           /\ tree[Walked(lastOp'.mod.path)].children # <<>>) =>
          /\ tree'[Walked(lastOp'.mod.path)].children = <<>>
          /\ \A k \in Range(tree[Walked(lastOp'.mod.path)].children) :
                /\ Len(SelectSeq(Events(log'),
                                 LAMBDA e : /\ e.at = Walked(lastOp'.mod.path)
                                            /\ e.type = ChildRemoved
                                            /\ e.key = k)) = 1
                /\ \A q \in NodePaths :
                      (tree[q].live /\ IsPrefix(Append(Walked(lastOp'.mod.path), k), q))
                         => q \in CompletedNodes(log')]_vars

Content(t) ==
    Strict([p \in NodePaths |-> [live |-> t[p].live, value |-> t[p].value,
                                  children |-> t[p].children]])

\* C23: after triggerRecordChangeNotifications and after resetRecordedChanges
\* the ledger of every node reachable from the root is empty, whatever storage
\* calls came before; resetRecordedChanges emits no event and leaves the
\* content of the tree as it was.
C23_LedgersEmptyAfterFlushOrReset ==
    [][(lastOp'.op \in {"flush", "reset"}) =>
          /\ ~lastOp'.threw
          /\ \A p \in NodePaths : tree'[p].live => tree'[p].changed = <<>>
          /\ lastOp'.op = "reset" =>
                (log' = <<>> /\ Content(tree') = Content(tree))]_vars

\* a flush that fired the ledgers of the root and of a and left every ledger
\* empty
C23_Witness ==
    /\ lastOp.op = "flush" /\ ~lastOp.threw
    /\ \E e \in Range(Events(log)) : e.at = <<>>
    /\ \E e \in Range(Events(log)) : e.at = <<"a">> /\ e.type # ValueChanged
    /\ \A p \in NodePaths : tree[p].changed = <<>>

\* C25: no sequence of storage calls (setValue, setValues, updateValues,
\* removeValue, flush, reset) throws 'Child node does not exist': no call
\* throws, and every Added or Changed entry of a ledger names a child the
\* node has, so the flush or reset that visits the entry finds it.
C25_ChildErrorUnreachable ==
    /\ ~lastOp.threw
    /\ \A p \in NodePaths : tree[p].live =>
          \A e \in Range(tree[p].changed) :
              e.type # Removed => GetDirectChild(tree, p, e.key) # NoNode

\* a ledger that holds a Removed entry for a key the node no longer has next
\* to an entry for a child it has
C25_Witness ==
    /\ lastOp.op = "storage" /\ ~lastOp.threw
    /\ \E p \in NodePaths : tree[p].live /\
          /\ \E e \in Range(tree[p].changed) :
                e.type = Removed /\ GetDirectChild(tree, p, e.key) = NoNode
          /\ \E e \in Range(tree[p].changed) :
                e.type # Removed /\ GetDirectChild(tree, p, e.key) # NoNode

\* the child keys the node object now at p had at the last flush point: none
\* when the node was created since
KeysThen(p) ==
    IF base.t[p].live /\ p \notin base.gone THEN Range(base.t[p].children) ELSE {}

\* C24: against the tree at the last flush point the ledger of every node
\* holds the net effect per child key: Added for a key the node did not have
\* then and has now, Removed for a key it had then and does not have now,
\* Changed for a key it has at both points when the child was replaced or the
\* content below it differs, and no entry for a key it has at neither point.
C24_LedgerIsNetEffect ==
    \A p \in NodePaths : tree[p].live =>
        \A k \in Keys :
            /\ (k \notin KeysThen(p) /\ k \in Range(tree[p].children))
                  => LedgerGet(tree[p].changed, k) = Added
            /\ (k \in KeysThen(p) /\ k \notin Range(tree[p].children))
                  => LedgerGet(tree[p].changed, k) = Removed
            /\ (/\ k \in KeysThen(p) /\ k \in Range(tree[p].children)
                /\ \/ Append(p, k) \in base.gone
                   \/ ~SameContent(Clone(base.t, Append(p, k)), Clone(tree, Append(p, k))))
                  => LedgerGet(tree[p].changed, k) = Changed
            /\ (k \notin KeysThen(p) /\ k \notin Range(tree[p].children))
                  => LedgerGet(tree[p].changed, k) = NoType

\* several writes after one flush: a has a child it had then and that was
\* replaced, and its other key was created and removed in between
C24_Witness ==
    /\ lastOp.op = "storage"
    /\ tree[<<"a">>].live /\ <<"a">> \notin base.gone
    /\ \E k \in KeysThen(<<"a">>) :
          k \in Range(tree[<<"a">>].children) /\ Append(<<"a">>, k) \in base.gone
    /\ \E k \in Keys \ KeysThen(<<"a">>) :
          k \notin Range(tree[<<"a">>].children) /\ Append(<<"a">>, k) \in base.gone

\* the events ev of one flush are in order for the node N whose parent held
\* the entry `type` for it: one event of the parent for N at i, one
\* ValueChanged of N at j, and between them exactly the events N and the
\* nodes below it publish
OrderedFor(ev, N, type) ==
    \E i, j \in 1..Len(ev) :
        /\ i < j
        /\ ev[i].at = Front(N) /\ ev[i].key = Last(N) /\ ev[i].type = EventTypeOf(type)
        /\ ev[j].at = N /\ ev[j].type = ValueChanged
        /\ \A n \in 1..Len(ev) :
              /\ IsPrefix(N, ev[n].at) <=> (i < n /\ n <= j)
              /\ (ev[n].at = N /\ ev[n].type = ValueChanged) => n = j
              /\ (ev[n].at = Front(N) /\ ev[n].key = Last(N) /\ ev[n].type # ValueChanged)
                    => n = i

\* C26: in a flush, for every node N below the root that its parent's ledger
\* holds as Added or Changed, the parent's ChildAdded/ChildChanged event for N
\* comes first, then the events of N's own ledger and of the nodes below it,
\* then exactly one ValueChanged of N; when the root's ledger is non-empty the
\* root's ValueChanged is the last event of the flush.
C26_FlushOrder ==
    [][(lastOp'.op = "flush") =>
          /\ \A N \in NodePaths \ {<<>>} :
                (tree[N].live /\ LedgerGet(tree[Front(N)].changed, Last(N)) \in {Added, Changed})
                   => OrderedFor(Events(log'), N, LedgerGet(tree[Front(N)].changed, Last(N)))
          /\ tree[<<>>].changed # <<>> =>
                /\ Events(log') # <<>>
                /\ Last(Events(log')).at = <<>>
                /\ Last(Events(log')).type = ValueChanged]_vars

\* a flush that published the ledger of a between root's event for a and a's
\* ValueChanged, and root's ValueChanged last
C26_Witness ==
    /\ lastOp.op = "flush"
    /\ Len(Events(log)) >= 4
    /\ Events(log)[1].at = <<>> /\ Events(log)[1].key = "a"
    /\ Events(log)[2].at = <<"a">> /\ Events(log)[2].type # ValueChanged
    /\ Last(Events(log)).at = <<>> /\ Last(Events(log)).type = ValueChanged

\* the Node object that was at q before the call can still be reached from
\* the root after it: q is in the tree and neither it nor a node above it was
\* constructed by the call
StillReachable(t, lg, q) ==
    /\ t[q].live
    /\ \A n \in 1..Len(q) : SubSeq(q, 1, n) \notin CreatedNodes(lg)

CallbacksAt(pe, path) == IF path \in DOMAIN pe THEN pe[path] ELSE <<>>

\* C28: unsubscribing a subscription that still waits for its path takes its
\* callback, and nothing else, out of the pending map and throws nothing: the
\* other waiters stay as they are, tree and ledgers are unchanged; when a
\* write creates the path later every waiter that is still registered is
\* resolved with the node, and a subscription that was cancelled is not
\* resolved and receives nothing.
C28_CancelWaiting ==
    [][/\ (lastOp'.op = "unsubscribe" /\ subs[lastOp'.sub].st = "waiting") =>
             /\ ~lastOp'.threw
             /\ \A path \in PathStrings :
                   CallbacksAt(pend', path)
                      = SelectSeq(CallbacksAt(pend, path), LAMBDA j : j # lastOp'.sub)
             /\ \A path \in DOMAIN pend' : pend'[path] # <<>>
             /\ tree' = tree
             /\ mq' = mq
             /\ \A j \in SubIds \ {lastOp'.sub} : subs'[j] = subs[j]
             /\ log' = <<>>
             /\ delivered' = NoneDelivered
       /\ (lastOp'.op = "ref" /\ ~lastOp'.threw) =>
             \A j \in SubIds :
                /\ (subs[j].st = "waiting" /\ GetNode(tree', subs[j].path) # NoNode) =>
                      /\ subs'[j].st = "resolved"
                      /\ subs'[j].node = GetNode(tree', subs[j].path)
                      /\ j \in Range(mq')
                /\ subs[j].st = "none" =>
                      (subs'[j].st = "none" /\ j \notin Range(mq') /\ delivered'[j] = <<>>)]_vars

\* subscription 1 has been cancelled while a/b does not exist and
\* subscription 2 waits for a/b as well: the callback of 2 is the one left
C28_Witness ==
    /\ lastOp.op = "unsubscribe" /\ lastOp.sub = 1 /\ lastOp.mod.path = <<"a", "b">>
    /\ ~tree[<<"a", "b">>].live
    /\ subs[1].st = "none"
    /\ subs[2].st = "waiting" /\ subs[2].path = <<"a", "b">>
    /\ CallbacksAt(pend, <<"a", "b">>) = <<2>>

\* C29: a callback of the pending map is resolved at most once, by the
\* onNodeModified of a write for its own path, with the node that is in the
\* tree at that path and never with a missing node, also when the keys of a
\* setValues/updateValues are compound or overlap; it leaves the pending map
\* when it is resolved.
\* The code breaks it: after setValues('', {'a/b': 1, 'a': 1}) the callbacks
\* waiting for a/b are called with null.
C29_ResolvedOnceWithLiveNode ==
    [][\A j \in SubIds :
          /\ (subs[j].st = "waiting" /\ subs'[j].st # "waiting" /\ lastOp'.op # "unsubscribe") =>
                /\ lastOp'.op \in {"ref", "apply", "storage"}
                /\ subs'[j].st = "resolved"
                /\ subs'[j].node = Walked(subs[j].path)
                /\ tree'[Walked(subs[j].path)].live
                /\ Len(SelectSeq(mq', LAMBDA k : k = j)) = 1
                /\ \A path \in DOMAIN pend' : j \notin Range(pend'[path])
          /\ subs[j].st # "waiting" =>
                Len(SelectSeq(mq', LAMBDA k : k = j)) <= Len(SelectSeq(mq, LAMBDA k : k = j))
                  + (IF lastOp'.op \in {"subscribe", "getValue"} /\ lastOp'.sub = j THEN 1 ELSE 0)]_vars

\* the events a flush of the tree t would publish
FlushEvents(t, pe) == Events(TriggerRecordChangeNotifications(StartStorage(t, pe)).log)

\* C30: storage.removeValue(p) when no node exists at p (p or its parent is
\* missing) does nothing: it throws nothing, the tree with its ledgers, the
\* pending map, the subscriptions and the queued callbacks are unchanged, no
\* node is created or completed, and the flush that follows publishes what it
\* would have published without the call: nothing when the ledgers were
\* empty.
C30_RemoveMissingIsNoOp ==
    [][(/\ lastOp'.op = "storage" /\ lastOp'.mod.type = "remove"
        /\ GetNode(tree, lastOp'.mod.path) = NoNode) =>
          /\ ~lastOp'.threw
          /\ tree' = tree
          /\ pend' = pend
          /\ subs' = subs
          /\ mq' = mq
          /\ log' = <<>>
          /\ delivered' = NoneDelivered
          /\ FlushEvents(tree', pend') = FlushEvents(tree, pend)
          /\ (\A q \in NodePaths : tree[q].changed = <<>>) => FlushEvents(tree', pend') = <<>>]_vars

\* removeValue('a/b') has returned on a tree in which a exists and a/b does
\* not, while a subscription waits for a/b
C30_Witness ==
    /\ lastOp.op = "storage" /\ lastOp.mod.type = "remove" /\ lastOp.mod.path = <<"a", "b">>
    /\ tree[<<"a">>].live /\ ~tree[<<"a", "b">>].live
    /\ log = <<>>
    /\ subs[1].st = "waiting" /\ subs[1].path = <<"a", "b">>

\* the storage call of the step constructed or disconnected a node
Restructured(lg) == CreatedNodes(lg) \cup CompletedNodes(lg) # {}

\* the content of the tree below the root: the root's children and all they
\* hold (a ledger records nothing else)
BelowRoot(t) == [Clone(t, <<>>) EXCEPT !.value = Null]

\* C31: applyModification discards the ledger without firing only for a Local
\* SetValues whose target node existed before and is structurally equal
\* after; every other attributed modification is flushed. A modification that
\* changed the content below the root, which is what the ledgers record, is
\* never suppressed: its flush publishes events, the root's ValueChanged
\* last; a modification that rebuilt nodes and published no event is a Local
\* SetValues on an existing node it left equal.
C31_SuppressedOnlyForLocalEcho ==
    [][(lastOp'.op = "apply" /\ ~lastOp'.threw) =>
          /\ ~SameContent(BelowRoot(tree), BelowRoot(tree')) =>
                /\ Events(log') # <<>>
                /\ Last(Events(log')).at = <<>>
                /\ Last(Events(log')).type = ValueChanged
          /\ (Restructured(log') /\ Events(log') = <<>>) =>
                /\ lastOp'.src = Local
                /\ lastOp'.mod.type = "setValues"
                /\ GetNode(tree, lastOp'.mod.path) # NoNode
                /\ SameContent(Clone(tree, GetNode(tree, lastOp'.mod.path)),
                               Clone(tree', GetNode(tree, lastOp'.mod.path)))
          /\ \A q \in NodePaths : tree'[q].changed = <<>>]_vars

\* a Local SetValues on an existing node that changed its content and was
\* flushed: children were rebuilt and events published
C31_Witness ==
    /\ lastOp.op = "apply" /\ lastOp.src = Local /\ lastOp.mod.type = "setValues"
    /\ lastOp.mod.path = <<"a">>
    /\ <<"a">> \notin CreatedNodes(log)
    /\ CompletedNodes(log) # {}
    /\ Events(log) # <<>>

\* the step is a setValue, made through a ref or applied from the sink, at a
\* path whose node exists and already holds the value written (the node holds
\* the written value after a setValue, so the value is the one it held)
SetsSameValue ==
    /\ lastOp'.op \in {"ref", "apply"} /\ ~lastOp'.threw
    /\ lastOp'.mod.type = "setValue"
    /\ GetNode(tree, lastOp'.mod.path) # NoNode
    /\ tree'[Walked(lastOp'.mod.path)].live
    /\ tree'[Walked(lastOp'.mod.path)].value = tree[Walked(lastOp'.mod.path)].value
    /\ lastOp'.op = "ref" => lastOp'.mod.value = tree[Walked(lastOp'.mod.path)].value

\* C32: setValue(p, v) on an existing node whose value already is v does
\* nothing: value and children of every node, every ledger, the pending map
\* and every subscription are unchanged, no node is constructed or completed,
\* and the flush that follows (in ref.setValue or in applyModification)
\* publishes no event and delivers nothing.
C32_SetSameValueIsNoOp ==
    [][SetsSameValue =>
          /\ tree' = tree
          /\ pend' = pend
          /\ subs' = subs
          /\ mq' = mq
          /\ Events(log') = <<>>
          /\ ~Restructured(log')
          /\ delivered' = NoneDelivered]_vars

\* ref('a').setValue(v) has returned on a node a that held v, with a
\* subscription attached to a: the write was published and no event followed
C32_Witness ==
    /\ lastOp.op = "ref" /\ ~lastOp.threw /\ lastOp.mod.type = "setValue"
    /\ lastOp.mod.path = <<"a">>
    /\ tree[<<"a">>].live /\ tree[<<"a">>].value = lastOp.mod.value
    /\ Published(log) # <<>> /\ Events(log) = <<>>
    /\ subs[1].st = "attached" /\ subs[1].node = <<"a">>

\* the node ref(p).child(k) is meant to address, for the path p/k of a write:
\* the keys of p followed by k
ChildTarget(path) == Append(Walked(Front(path)), Last(path))

\* C33: for a ref at any path p, the root ref included, child(k) addresses
\* the node whose keys are those of p followed by k: a setValue through it
\* leaves that node holding the value and changes no node beside the way to
\* it, and the path a snapshot of that node reports leads database.reference
\* to the same node.
\* The code breaks it for the root ref: ref('').child('a') has the path '/a',
\* whose first segment is '', and every walk stops at the root.
C33_ChildAddressesExtendedPath ==
    [][(/\ lastOp'.op = "ref" /\ ~lastOp'.threw /\ lastOp'.mod.type = "setValue"
        /\ Len(lastOp'.mod.path) >= 2) =>
          /\ Walked(lastOp'.mod.path) = ChildTarget(lastOp'.mod.path)
          /\ tree'[ChildTarget(lastOp'.mod.path)].live
          /\ tree'[ChildTarget(lastOp'.mod.path)].value = lastOp'.mod.value
          /\ GetNode(tree', Take(tree', ChildTarget(lastOp'.mod.path)).path)
                = ChildTarget(lastOp'.mod.path)
          /\ \A q \in NodePaths :
                (~IsPrefix(q, ChildTarget(lastOp'.mod.path))
                   /\ ~IsPrefix(ChildTarget(lastOp'.mod.path), q))
                  => Content(tree')[q] = Content(tree)[q]]_vars

\* the step applied a Local SetValues that was suppressed as an echo: the
\* target node existed, its content is the same afterwards, nothing was
\* published
SuppressedEcho ==
    /\ lastOp'.op = "apply" /\ ~lastOp'.threw /\ lastOp'.src = Local
    /\ lastOp'.mod.type = "setValues"
    /\ GetNode(tree, lastOp'.mod.path) # NoNode
    /\ SameContent(Clone(tree, Walked(lastOp'.mod.path)), Clone(tree', Walked(lastOp'.mod.path)))
    /\ Events(log') = <<>>

\* C34: a Local SetValues that is suppressed as an echo disturbs no
\* subscription: those attached to the target node, to its children and to
\* the nodes below them receive no event and are not completed, they stay
\* attached to the node of the tree at their path.
\* The code breaks it: setValues removes and disconnects every child of the
\* target before it writes them again, which completes their subscriptions.
C34_EchoDisturbsNoSubscription ==
    [][SuppressedEcho =>
          \A i \in SubIds :
             (subs[i].st = "attached" /\ IsPrefix(Walked(lastOp'.mod.path), subs[i].node)) =>
                /\ delivered'[i] = <<>>
                /\ subs'[i] = subs[i]
                /\ subs[i].node \notin CompletedNodes(log')]_vars

\* the content of the node at q is not what it was before the step: the node
\* is new, or what it holds differs
ContentChangedAt(q) ==
    /\ tree'[q].live
    /\ ~tree[q].live \/ ~SameContent(Clone(tree, q), Clone(tree', q))

\* C35: every write that changes the content of the node at p makes the
\* flush that follows publish a ValueChanged at p and at every node above p,
\* the root included (the content of each of them changed with p), also when
\* p is the root: a primitive value written at the empty path.
\* The code breaks it at the root: a value written at '' marks nothing, and
\* the flush publishes no event.
C35_ValueChangedUpToRoot ==
    [][(lastOp'.op \in {"ref", "apply"} /\ ~lastOp'.threw) =>
          \A q \in NodePaths :
             ContentChangedAt(q) =>
                \E e \in Range(Events(log')) : e.at = q /\ e.type = ValueChanged]_vars

\* C36: a modification applied through the sink, Local or Remote, publishes
\* nothing on database.modifications; whatever is published there was
\* published by a ref write.
C36_InboundNeverRelayed ==
    /\ lastOp.op = "apply" => Published(log) = <<>>
    /\ Published(log) # <<>> => lastOp.op = "ref"

\* a Remote modification was applied and its flush published events, and
\* nothing went out on database.modifications
C36_Witness ==
    /\ lastOp.op = "apply" /\ lastOp.src = Remote /\ ~lastOp.threw
    /\ Events(log) # <<>>
    /\ Published(log) = <<>>

\* C37: however a subscribe call, the deferred delivery of its replay burst
\* and the writes in between interleave, the burst is built from the node
\* that is in the tree at the path when the burst is delivered, never from a
\* node removed from the tree, and the subscription is then attached to that
\* node.
\* The code breaks it: the promise keeps the Node it was resolved with; when
\* the node is removed before the callbacks run, the burst shows the removed
\* node and the subscription completes.
C37_BurstFromLiveNode ==
    [][(lastOp'.op = "deliver" /\ subs[lastOp'.sub].st \in {"resolved", "stale"}) =>
          IF GetNode(tree, subs[lastOp'.sub].path) # NoNode
          THEN /\ delivered'[lastOp'.sub]
                     = ReplayBurst(Walked(subs[lastOp'.sub].path),
                                   Clone(tree, Walked(subs[lastOp'.sub].path)))
               /\ subs'[lastOp'.sub].st = "attached"
               /\ subs'[lastOp'.sub].node = Walked(subs[lastOp'.sub].path)
          ELSE delivered'[lastOp'.sub] = <<>>]_vars

\* C38: between mutations, every node of the tree whose ledger is non-empty
\* has an Added or Changed entry for its key in its parent's ledger, and so
\* has every node above it below the root; an entry Removed for a key k in a
\* node's ledger means k is not a child of the node.
C38_DirtyNodesAreMarkedAbove ==
    \A p \in NodePaths : tree[p].live =>
        /\ tree[p].changed # <<>> =>
              \A n \in 1..Len(p) :
                  LedgerGet(tree[SubSeq(p, 1, n - 1)].changed, p[n]) \in {Added, Changed}
        /\ \A e \in Range(tree[p].changed) :
              e.type = Removed => e.key \notin Range(tree[p].children)

\* the ledger of a/b's parent a is non-empty two levels below the root, next
\* to a Removed entry for a key a no longer has
C38_Witness ==
    /\ lastOp.op = "storage"
    /\ tree[<<"a">>].live
    /\ \E e \in Range(tree[<<"a">>].changed) : e.type = Removed
    /\ \E e \in Range(tree[<<"a">>].changed) : e.type # Removed
    /\ LedgerGet(tree[<<>>].changed, "a") = Changed

\* C39: the pending map holds a callback for a path only while no node
\* exists at the path and the subscription that registered it is waiting:
\* once a call has returned, no path that has a node has callbacks in the map,
\* every callback in it belongs to a subscription waiting for that path, and
\* no path is mapped to an empty list.
C39_PendingOnlyWhileAbsent ==
    \A path \in DOMAIN pend :
        /\ pend[path] # <<>>
        /\ GetNode(tree, path) = NoNode
        /\ \A n \in 1..Len(pend[path]) :
              /\ subs[pend[path][n]].st = "waiting"
              /\ subs[pend[path][n]].path = path
              /\ \A k \in 1..Len(pend[path]) : pend[path][k] = pend[path][n] => k = n

\* a write has created a/b while two subscriptions waited for it: both are
\* resolved and the map is empty
C39_Witness ==
    /\ lastOp.op = "ref" /\ ~lastOp.threw
    /\ <<"a", "b">> \in CreatedNodes(log)
    /\ tree[<<"a", "b">>].live
    /\ \A i \in SubIds : subs[i].st = "resolved" /\ subs[i].path = <<"a", "b">> /\ subs[i].cb
    /\ pend = <<>>

====
